---- MODULE Spec2Model ----
(***************************************************************************)
(* Model of src/src/main.py: the target-angle sequencer (rotary_loop), the *)
(* command handlers (set_angles, stop_encoder, prompt_for_angles) and the  *)
(* encoder position r._value they share.                                   *)
(*                                                                         *)
(* Threads.  Thread 0 is the foreground thread: it runs the initial        *)
(* prompt_for_angles() of main.py:113 and, once main.py has returned, the  *)
(* interactive interpreter from which the same handlers are called again.  *)
(* Threads 1..MaxTasks are the slots of the threads set_angles starts with *)
(* _thread.start_new_thread(rotary_loop, ()).                              *)
(*                                                                         *)
(* Atomicity.  One action is one Python statement (a condition and the     *)
(* branch it selects are separate steps).  A statement that touches only   *)
(* locals, a print or a sleep is merged with the statement next to it. The *)
(* command lines arrive on one line-oriented input: a line is read only    *)
(* when no handler of an earlier line is still executing.                  *)
(***************************************************************************)
EXTENDS Integers, Sequences, FiniteSets, TLC

\* ---------------------------------------------------------------- bounds
\* Upper bound of the position range in half-steps (max_val of the encoder,
\* 720 in main.py:10, scaled down; it stays above the clear threshold).
MaxVal == 11
\* Number of thread slots for rotary_loop tasks.
MaxTasks == 2
\* Longest token list of a set command.
MaxToks == 2
MaxTenths == 15

\* ------------------------------------------------------ program constants
\* min_val of the encoder (main.py:9).
MinVal == 0
\* "angle < 2" (main.py:51), in degrees.
NearZeroAngle == 2
\* "angle > 5" (main.py:66), in degrees.
ClearAngle == 5

Main == 0
Tasks == 1..MaxTasks
Threads == {Main} \cup Tasks

VARIABLES
    value,                 \* r._value: the position in half-steps
    output,                \* level of the output pin (Pin 32)
    target_angles,         \* the queue, in half-steps
    current_target_index,
    encoder_active,
    reset_detected,
    triggered,
    loop_running,
    pc,                    \* per thread: the statement it executes next
    steps,                 \* per task: local "steps" sampled at main.py:37
    target,                \* per task: target_angles[current_target_index] read at main.py:39
    ab,                    \* the decoder's last-observed levels of channels A and B
    \* observers (history variables, never read by the program's actions);
    \* a specification switches on the one its claims read, named by watch
    watch,
    reply,                 \* how the last command line was answered: "ok" or "rejected"
    stops,                 \* stop commands returned since the last accepted set (capped at 2)
    fired,                 \* the output was switched on for the current index
    rearm,                 \* "fresh": no reset yet; "held": reset, no sample above clear since; "clear"
    completed,             \* a sequence completed; no set was accepted since or is being handled
    sampled                \* a poll has sampled the position since the mechanism last moved

vars == <<value, output, target_angles, current_target_index, encoder_active,
          reset_detected, triggered, loop_running, pc, steps, target, reply,
          watch, stops, fired, rearm, completed, ab, sampled>>

\* --------------------------------------------------------------- commands
\* A token of the comma-separated list: a number (in tenths of a degree),
\* a non-numeric word, or blank.
Tokens == { [k |-> "num", v |-> 30],
            [k |-> "bad", v |-> 0], [k |-> "blank", v |-> 0] }

TokLists == UNION { [1..n -> Tokens] : n \in 1..MaxToks }

\* int(float(a) * 2) for a = tenths/10 >= 0: truncation.
HalfSteps(tenths) == (tenths * 2) \div 10

\* [... for a in raw.split(',') if a.strip()]: blank tokens are skipped.
NonBlank(toks) == SelectSeq(toks, LAMBDA a : a.k # "blank")

\* main.py:74-75: the list of half-steps, or the exception float() raises.
ParseAngles(toks) ==
    LET kept == NonBlank(toks)
    IN  IF \E i \in 1..Len(kept) : kept[i].k = "bad"
        THEN [ok |-> FALSE, angles |-> <<>>]
        ELSE [ok |-> TRUE, angles |-> [i \in 1..Len(kept) |-> HalfSteps(kept[i].v)]]

\* ---------------------------------------------------------------- helpers
\* RANGE_BOUNDED: the new position is clamped to [min_val, max_val].
Bound(v) == IF v < MinVal THEN MinVal ELSE IF v > MaxVal THEN MaxVal ELSE v

\* Where a handler returns to: the foreground thread reads the next line,
\* a task leaves prompt_for_angles and rotary_loop (break, main.py:64).
Ret(th) == IF th = Main THEN "prompt" ELSE "none"

\* A thread is inside set_angles (main.py:77-81) or stop_encoder (main.py:88).
SetPcs == {"s77", "s78", "s79", "s81"}
SetBusy == \E th \in Threads : pc[th] \in SetPcs
CmdBusy == \E th \in Threads : pc[th] \in SetPcs \cup {"p88"}

FreeSlots(th) == {t \in Tasks : t # th /\ pc[t] \in {"none", "crashed"}}
Min(S) == CHOOSE x \in S : \A y \in S : x <= y

\* The value an observer takes in a step: updated where it is switched on.
Obs(name, new, old) == IF watch = name THEN new ELSE old

\* The state after main.py:1-25, with the observer w switched on.
InitW(w) ==
    /\ watch = w
    /\ value = 0
    /\ output = FALSE
    /\ target_angles = <<>>
    /\ current_target_index = 0
    /\ encoder_active = FALSE
    /\ reset_detected = FALSE
    /\ triggered = FALSE
    /\ loop_running = FALSE
    /\ pc = [th \in Threads |-> IF th = Main THEN "prompt" ELSE "none"]
    /\ steps = [t \in Tasks |-> 0]
    /\ target = [t \in Tasks |-> 0]
    /\ reply = "ok"
    /\ stops = 0
    /\ fired = FALSE
    /\ rearm = "fresh"
    /\ completed = FALSE
    /\ ab = <<1, 1>>
    /\ sampled = TRUE

Init == InitW("none")

\* ------------------------------------------------------------ the decoder
\* The positions the mechanism is sampled at: the origin, the last position
\* below the near-zero threshold, the threshold itself, and every position
\* above the clear threshold (one of each class the sequencer tells apart).
Positions ==
    {p \in MinVal..MaxVal : \/ p = MinVal
                            \/ p = 2 * NearZeroAngle - 1
                            \/ p = 2 * NearZeroAngle
                            \/ p > 2 * ClearAngle}

\* The decoder's edges between two statements of the other threads: the
\* position, clamped to [min_val, max_val], moves to another sampled position.
Edge ==
    /\ \E p \in Positions : value' = Bound(p)
    /\ UNCHANGED <<watch, ab, sampled, output, target_angles, current_target_index, encoder_active,
                   reset_detected, triggered, loop_running, pc, steps, target,
                   reply, stops, fired, rearm, completed>>

\* The 2-bit states (A, B) of the two channels, and their place in the
\* quadrature cycle 00 -> 01 -> 11 -> 10 -> 00.
Levels == {0, 1}
ABStates == Levels \X Levels
Phase(s) == IF s = <<0, 0>> THEN 0
            ELSE IF s = <<0, 1>> THEN 1
            ELSE IF s = <<1, 1>> THEN 2
            ELSE 3

\* The 16-entry transition table: +1 one place forward in the cycle, -1 one
\* place back, 0 for a repeated state and for both bits changing at once.
Delta(prev, new) ==
    LET d == (Phase(new) - Phase(prev)) % 4
    IN  IF d = 1 THEN 1 ELSE IF d = 3 THEN 0 - 1 ELSE 0

\* A decoder that counts every change of state as a forward half-step.
DecodeUnfiltered ==
    /\ \E new \in ABStates :
          /\ ab' = new
          /\ value' = Bound(value + (IF new # ab THEN 1 ELSE 0))
    /\ UNCHANGED <<watch, sampled, output, target_angles, current_target_index,
                   encoder_active, reset_detected, triggered, loop_running, pc,
                   steps, target, reply, stops, fired, rearm, completed>>

\* onEdge, half-step mode, RANGE_BOUNDED: the new state is formed, the table
\* looked up, and the result added to the position, clamped to the bounds.
Decode ==
    /\ \E new \in ABStates :
          /\ ab' = new
          /\ value' = Bound(value + Delta(ab, new))
    /\ UNCHANGED <<watch, sampled, output, target_angles, current_target_index,
                   encoder_active, reset_detected, triggered, loop_running, pc,
                   steps, target, reply, stops, fired, rearm, completed>>

\* ------------------------------------------------------------ rotary_loop
\* main.py:29-30  last_steps = -1; loop_running = True
LoopStart(t) ==
    /\ pc[t] = "start"
    /\ loop_running' = TRUE
    /\ pc' = [pc EXCEPT ![t] = "while"]
    /\ UNCHANGED <<watch, ab, sampled, value, output, target_angles, current_target_index,
                   encoder_active, reset_detected, triggered, steps, target,
                   reply, stops, fired, rearm, completed>>

\* main.py:32  while loop_running: (the thread ends when the loop is left)
LoopTest(t) ==
    /\ pc[t] = "while"
    /\ pc' = [pc EXCEPT ![t] = IF loop_running THEN "chk" ELSE "none"]
    /\ UNCHANGED <<watch, ab, sampled, value, output, target_angles, current_target_index,
                   encoder_active, reset_detected, triggered, loop_running,
                   steps, target, reply, stops, fired, rearm, completed>>

\* An idle check that looks at the queue only.
IdleCheckQueueOnly(t) ==
    /\ pc[t] = "chk"
    /\ pc' = [pc EXCEPT ![t] = IF target_angles = <<>> THEN "while" ELSE "read"]
    /\ UNCHANGED <<watch, ab, sampled, value, output, target_angles, current_target_index,
                   encoder_active, reset_detected, triggered, loop_running,
                   steps, target, reply, stops, fired, rearm, completed>>

\* main.py:33-35  if not encoder_active or not target_angles: sleep; continue
IdleCheck(t) ==
    /\ pc[t] = "chk"
    /\ pc' = [pc EXCEPT ![t] = IF ~encoder_active \/ target_angles = <<>>
                               THEN "while" ELSE "read"]
    /\ UNCHANGED <<watch, ab, sampled, value, output, target_angles, current_target_index,
                   encoder_active, reset_detected, triggered, loop_running,
                   steps, target, reply, stops, fired, rearm, completed>>

\* main.py:37-38  steps = r._value; angle = steps / 2.0
ReadSteps(t) ==
    /\ pc[t] = "read"
    /\ steps' = [steps EXCEPT ![t] = value]
    /\ rearm' = Obs("rearm", IF value > 2 * ClearAngle THEN "clear" ELSE rearm, rearm)
    /\ sampled' = Obs("sampled", TRUE, sampled)
    /\ pc' = [pc EXCEPT ![t] = "tgt"]
    /\ UNCHANGED <<watch, ab, value, output, target_angles, current_target_index,
                   encoder_active, reset_detected, triggered, loop_running,
                   target, reply, stops, fired, completed>>

\* main.py:39  target = target_angles[current_target_index] / 2.0
\* (the local keeps the half-step count read; an index outside the list
\* raises IndexError, which ends the thread)
ReadTarget(t) ==
    /\ pc[t] = "tgt"
    /\ IF current_target_index + 1 \in DOMAIN target_angles
       THEN /\ target' = [target EXCEPT ![t] = target_angles[current_target_index + 1]]
            /\ pc' = [pc EXCEPT ![t] = "trig"]
            /\ steps' = steps
       ELSE /\ target' = target
            /\ steps' = [steps EXCEPT ![t] = 0]
            /\ pc' = [pc EXCEPT ![t] = "crashed"]
    /\ UNCHANGED <<watch, ab, sampled, value, output, target_angles, current_target_index,
                   encoder_active, reset_detected, triggered, loop_running,
                   reply, stops, fired, rearm, completed>>

\* main.py:42  "steps >= target", with target = (half-steps read) / 2.0
Reached(s, tgt) == 2 * s >= tgt

\* main.py:42,47  if not triggered and steps >= target: ... else: ...
TriggerTest(t) ==
    /\ pc[t] = "trig"
    /\ pc' = [pc EXCEPT ![t] = IF ~triggered /\ Reached(steps[t], target[t])
                               THEN "on" ELSE "off"]
    /\ UNCHANGED <<watch, ab, sampled, value, output, target_angles, current_target_index,
                   encoder_active, reset_detected, triggered, loop_running,
                   steps, target, reply, stops, fired, rearm, completed>>

\* main.py:43  output.on()
OutputOn(t) ==
    /\ pc[t] = "on"
    /\ output' = TRUE
    /\ fired' = Obs("fired", TRUE, fired)
    /\ pc' = [pc EXCEPT ![t] = "settrig"]
    /\ UNCHANGED <<watch, ab, sampled, value, target_angles, current_target_index, encoder_active,
                   reset_detected, triggered, loop_running, steps, target,
                   reply, stops, rearm, completed>>

\* main.py:44-45  triggered = True; print
SetTriggered(t) ==
    /\ pc[t] = "settrig"
    /\ triggered' = TRUE
    /\ pc' = [pc EXCEPT ![t] = "rst"]
    /\ UNCHANGED <<watch, ab, sampled, value, output, target_angles, current_target_index,
                   encoder_active, reset_detected, loop_running, steps, target,
                   reply, stops, fired, rearm, completed>>

\* main.py:48  output.off()
OutputOff(t) ==
    /\ pc[t] = "off"
    /\ output' = FALSE
    /\ pc' = [pc EXCEPT ![t] = "rst"]
    /\ UNCHANGED <<watch, ab, sampled, value, target_angles, current_target_index, encoder_active,
                   reset_detected, triggered, loop_running, steps, target,
                   reply, stops, fired, rearm, completed>>

\* main.py:51  "angle < 2", with angle = steps / 2.0
NearZero(s) == s < 2 * NearZeroAngle

\* main.py:51  if angle < 2 and not reset_detected:
ResetTest(t) ==
    /\ pc[t] = "rst"
    /\ pc' = [pc EXCEPT ![t] = IF NearZero(steps[t]) /\ ~reset_detected
                               THEN "rset" ELSE "clr"]
    /\ UNCHANGED <<watch, ab, sampled, value, output, target_angles, current_target_index,
                   encoder_active, reset_detected, triggered, loop_running,
                   steps, target, reply, stops, fired, rearm, completed>>

\* A reset that writes one below the lower bound.
ResetValueBelow(t) ==
    /\ pc[t] = "rset"
    /\ value' = MinVal - 1
    /\ rearm' = Obs("rearm", "held", rearm)
    /\ pc' = [pc EXCEPT ![t] = "rflag"]
    /\ UNCHANGED <<watch, ab, sampled, output, target_angles, current_target_index, encoder_active,
                   reset_detected, triggered, loop_running, steps, target,
                   reply, stops, fired, completed>>

\* main.py:52  r.set(0)
ResetValue(t) ==
    /\ pc[t] = "rset"
    /\ value' = 0
    /\ rearm' = Obs("rearm", "held", rearm)
    /\ pc' = [pc EXCEPT ![t] = "rflag"]
    /\ UNCHANGED <<watch, ab, sampled, output, target_angles, current_target_index, encoder_active,
                   reset_detected, triggered, loop_running, steps, target,
                   reply, stops, fired, completed>>

\* main.py:53  reset_detected = True
SetResetDetected(t) ==
    /\ pc[t] = "rflag"
    /\ reset_detected' = TRUE
    /\ pc' = [pc EXCEPT ![t] = "untrig"]
    /\ UNCHANGED <<watch, ab, sampled, value, output, target_angles, current_target_index,
                   encoder_active, triggered, loop_running, steps, target,
                   reply, stops, fired, rearm, completed>>

\* main.py:54-55  triggered = False; print
ClearTriggered(t) ==
    /\ pc[t] = "untrig"
    /\ triggered' = FALSE
    /\ pc' = [pc EXCEPT ![t] = "inc"]
    /\ UNCHANGED <<watch, ab, sampled, value, output, target_angles, current_target_index,
                   encoder_active, reset_detected, loop_running, steps, target,
                   reply, stops, fired, rearm, completed>>

\* main.py:58  current_target_index += 1
Advance(t) ==
    /\ pc[t] = "inc"
    /\ current_target_index' = current_target_index + 1
    /\ fired' = Obs("fired", FALSE, fired)
    /\ pc' = [pc EXCEPT ![t] = "cmp"]
    /\ UNCHANGED <<watch, ab, sampled, value, output, target_angles, encoder_active, reset_detected,
                   triggered, loop_running, steps, target, reply, stops, rearm,
                   completed>>

\* main.py:59  if current_target_index >= len(target_angles):
CompareDone(t) ==
    /\ pc[t] = "cmp"
    /\ pc' = [pc EXCEPT ![t] = IF current_target_index >= Len(target_angles)
                               THEN "c87" ELSE "clr"]
    /\ UNCHANGED <<watch, ab, sampled, value, output, target_angles, current_target_index,
                   encoder_active, reset_detected, triggered, loop_running,
                   steps, target, reply, stops, fired, rearm, completed>>

\* main.py:61 -> 87  stop_encoder(): encoder_active = False
DoneStopActive(t) ==
    /\ pc[t] = "c87"
    /\ encoder_active' = FALSE
    /\ pc' = [pc EXCEPT ![t] = "c88"]
    /\ UNCHANGED <<watch, ab, sampled, value, output, target_angles, current_target_index,
                   reset_detected, triggered, loop_running, steps, target,
                   reply, stops, fired, rearm, completed>>

\* main.py:61 -> 88-89  stop_encoder(): output.off(); print
DoneStopOutput(t) ==
    /\ pc[t] = "c88"
    /\ output' = FALSE
    /\ pc' = [pc EXCEPT ![t] = "lrf"]
    /\ UNCHANGED <<watch, ab, sampled, value, target_angles, current_target_index, encoder_active,
                   reset_detected, triggered, loop_running, steps, target,
                   reply, stops, fired, rearm, completed>>

\* main.py:62-63  loop_running = False; prompt_for_angles()
DoneLoopOff(t) ==
    /\ pc[t] = "lrf"
    /\ loop_running' = FALSE
    /\ completed' = Obs("completed", ~SetBusy, completed)
    /\ steps' = [steps EXCEPT ![t] = 0]
    /\ target' = [target EXCEPT ![t] = 0]
    /\ pc' = [pc EXCEPT ![t] = "prompt"]
    /\ UNCHANGED <<watch, ab, sampled, value, output, target_angles, current_target_index,
                   encoder_active, reset_detected, triggered, reply, stops,
                   fired, rearm>>

\* main.py:66  "angle > 5", with angle = steps / 2.0
AboveClear(s) == s > 2 * ClearAngle

\* main.py:66-69  if angle > 5: reset_detected = False; sleep; next iteration
ClearTest(t) ==
    /\ pc[t] = "clr"
    /\ reset_detected' = IF AboveClear(steps[t]) THEN FALSE ELSE reset_detected
    /\ steps' = [steps EXCEPT ![t] = 0]
    /\ target' = [target EXCEPT ![t] = 0]
    /\ pc' = [pc EXCEPT ![t] = "while"]
    /\ UNCHANGED <<watch, ab, sampled, value, output, target_angles, current_target_index,
                   encoder_active, triggered, loop_running, reply, stops,
                   fired, rearm, completed>>

rotary_loop(t) ==
    \/ LoopStart(t)
    \/ LoopTest(t)
    \/ IdleCheck(t)
    \/ ReadSteps(t)
    \/ ReadTarget(t)
    \/ TriggerTest(t)
    \/ OutputOn(t)
    \/ SetTriggered(t)
    \/ OutputOff(t)
    \/ ResetTest(t)
    \/ ResetValue(t)
    \/ SetResetDetected(t)
    \/ ClearTriggered(t)
    \/ Advance(t)
    \/ CompareDone(t)
    \/ DoneStopActive(t)
    \/ DoneStopOutput(t)
    \/ DoneLoopOff(t)
    \/ ClearTest(t)

\* --------------------------------------------------------------- commands
\* A variant of SetAngles that stores each converted angle into target_angles
\* as it goes, so that the tokens before a bad one are installed before the
\* exception is raised.
SetAnglesPartial(th, toks) ==
    /\ pc[th] = "prompt"
    /\ ~CmdBusy
    /\ LET r == ParseAngles(toks)
           kept == NonBlank(toks)
           bad == {i \in 1..Len(kept) : kept[i].k = "bad"}
           done == IF bad = {} THEN Len(kept) ELSE Min(bad) - 1
       IN  IF r.ok
           THEN /\ FreeSlots(th) # {}
                /\ target_angles' = r.angles
                /\ pc' = [pc EXCEPT ![th] = "s77"]
                /\ stops' = Obs("stops", 0, stops)
                /\ fired' = Obs("fired", FALSE, fired)
                /\ completed' = Obs("completed", FALSE, completed)
                /\ reply' = reply
           ELSE /\ target_angles' = [i \in 1..done |-> HalfSteps(kept[i].v)]
                /\ reply' = Obs("reply", "rejected", reply)
                /\ pc' = [pc EXCEPT ![th] = Ret(th)]
                /\ UNCHANGED <<stops, fired, completed>>
    /\ UNCHANGED <<watch, ab, sampled, value, output, current_target_index, encoder_active,
                   reset_detected, triggered, loop_running, steps, target, rearm>>

\* main.py:71-76  set_angles(cmd), reached from main.py:96-98: the list is
\* parsed and, when no token raised, assigned to target_angles; an exception
\* goes to the except clause (main.py:82-83), which prints and returns.
SetAngles(th, toks) ==
    /\ pc[th] = "prompt"
    /\ ~CmdBusy
    /\ LET r == ParseAngles(toks)
       IN  IF r.ok
           THEN /\ FreeSlots(th) # {}
                /\ target_angles' = r.angles
                /\ pc' = [pc EXCEPT ![th] = "s77"]
                /\ stops' = Obs("stops", 0, stops)
                /\ fired' = Obs("fired", FALSE, fired)
                /\ completed' = Obs("completed", FALSE, completed)
                /\ reply' = reply
           ELSE /\ reply' = Obs("reply", "rejected", reply)
                /\ pc' = [pc EXCEPT ![th] = Ret(th)]
                /\ UNCHANGED <<watch, ab, sampled, target_angles, stops, fired, completed>>
    /\ UNCHANGED <<watch, ab, sampled, value, output, current_target_index, encoder_active,
                   reset_detected, triggered, loop_running, steps, target, rearm>>

\* An index assignment that also resets the encoder.
SetIndexReset(th) ==
    /\ pc[th] = "s77"
    /\ current_target_index' = 0
    /\ value' = 0
    /\ fired' = Obs("fired", FALSE, fired)
    /\ completed' = Obs("completed", FALSE, completed)
    /\ pc' = [pc EXCEPT ![th] = "s78"]
    /\ UNCHANGED <<watch, ab, sampled, output, target_angles, encoder_active, reset_detected,
                   triggered, loop_running, steps, target, reply, stops, rearm>>

\* main.py:77  current_target_index = 0
SetIndex(th) ==
    /\ pc[th] = "s77"
    /\ current_target_index' = 0
    /\ fired' = Obs("fired", FALSE, fired)
    /\ completed' = Obs("completed", FALSE, completed)
    /\ pc' = [pc EXCEPT ![th] = "s78"]
    /\ UNCHANGED <<watch, ab, sampled, value, output, target_angles, encoder_active, reset_detected,
                   triggered, loop_running, steps, target, reply, stops, rearm>>

\* main.py:78  encoder_active = True
SetActive(th) ==
    /\ pc[th] = "s78"
    /\ encoder_active' = TRUE
    /\ completed' = Obs("completed", FALSE, completed)
    /\ pc' = [pc EXCEPT ![th] = "s79"]
    /\ UNCHANGED <<watch, ab, sampled, value, output, target_angles, current_target_index,
                   reset_detected, triggered, loop_running, steps, target,
                   reply, stops, fired, rearm>>

\* main.py:79  loop_running = True
SetLoopRunning(th) ==
    /\ pc[th] = "s79"
    /\ loop_running' = TRUE
    /\ completed' = Obs("completed", FALSE, completed)
    /\ pc' = [pc EXCEPT ![th] = "s81"]
    /\ UNCHANGED <<watch, ab, sampled, value, output, target_angles, current_target_index,
                   encoder_active, reset_detected, triggered, steps, target,
                   reply, stops, fired, rearm>>

\* main.py:80-81  print; _thread.start_new_thread(rotary_loop, ())
StartThread(th) ==
    /\ pc[th] = "s81"
    /\ FreeSlots(th) # {}
    /\ pc' = [pc EXCEPT ![th] = Ret(th), ![Min(FreeSlots(th))] = "start"]
    /\ reply' = Obs("reply", "ok", reply)
    /\ completed' = Obs("completed", FALSE, completed)
    /\ UNCHANGED <<watch, ab, sampled, value, output, target_angles, current_target_index,
                   encoder_active, reset_detected, triggered, loop_running,
                   steps, target, stops, fired, rearm>>

\* A variant of StopActive that toggles encoder_active instead of clearing it.
StopActiveToggle(th) ==
    /\ pc[th] = "prompt"
    /\ ~CmdBusy
    /\ encoder_active' = ~encoder_active
    /\ pc' = [pc EXCEPT ![th] = "p88"]
    /\ UNCHANGED <<watch, ab, sampled, value, output, target_angles, current_target_index,
                   reset_detected, triggered, loop_running, steps, target,
                   reply, stops, fired, rearm, completed>>

\* main.py:99-100 -> 87  stop_encoder(): encoder_active = False
StopActive(th) ==
    /\ pc[th] = "prompt"
    /\ ~CmdBusy
    /\ encoder_active' = FALSE
    /\ pc' = [pc EXCEPT ![th] = "p88"]
    /\ UNCHANGED <<watch, ab, sampled, value, output, target_angles, current_target_index,
                   reset_detected, triggered, loop_running, steps, target,
                   reply, stops, fired, rearm, completed>>

\* main.py:88-89, 101  output.off(); print; break
StopOutput(th) ==
    /\ pc[th] = "p88"
    /\ output' = FALSE
    /\ reply' = Obs("reply", "ok", reply)
    /\ stops' = Obs("stops", IF stops < 2 THEN stops + 1 ELSE stops, stops)
    /\ pc' = [pc EXCEPT ![th] = Ret(th)]
    /\ UNCHANGED <<watch, ab, sampled, value, target_angles, current_target_index, encoder_active,
                   reset_detected, triggered, loop_running, steps, target,
                   fired, rearm, completed>>

\* main.py:102-103  any other line: print "Unknown command", read again
Unknown(th) ==
    /\ pc[th] = "prompt"
    /\ ~CmdBusy
    /\ reply' = Obs("reply", "rejected", reply)
    /\ UNCHANGED <<watch, ab, sampled, value, output, target_angles, current_target_index,
                   encoder_active, reset_detected, triggered, loop_running, pc,
                   steps, target, stops, fired, rearm, completed>>

\* main.py:71-83
set_angles(th) ==
    \/ \E toks \in TokLists : SetAngles(th, toks)
    \/ SetIndex(th)
    \/ SetActive(th)
    \/ SetLoopRunning(th)
    \/ StartThread(th)

\* main.py:85-89
stop_encoder(th) ==
    \/ StopActive(th)
    \/ StopOutput(th)

\* main.py:91-105
prompt_for_angles(th) ==
    \/ set_angles(th)
    \/ stop_encoder(th)
    \/ Unknown(th)

Next ==
    \/ Edge
    \/ \E t \in Tasks : rotary_loop(t)
    \/ \E th \in Threads : prompt_for_angles(th)

Spec == Init /\ [][Next]_vars

\* The same program, each with one observer switched on.
SpecStops == InitW("stops") /\ [][Next]_vars
SpecFired == InitW("fired") /\ [][Next]_vars
SpecRearm == InitW("rearm") /\ [][Next]_vars
SpecCompleted == InitW("completed") /\ [][Next]_vars
SpecReply == InitW("reply") /\ [][Next]_vars

\* ------------------------------------------------------------ properties
\* The statements of the loop body of rotary_loop (main.py:37-69).
BodyPcs == {"read", "tgt", "trig", "on", "settrig", "off", "rst", "rset",
            "rflag", "untrig", "inc", "cmp", "c87", "c88", "lrf", "clr"}

\* Task t is inside a poll (past the idle check of main.py:33).
Polling(t) == pc[t] \in BodyPcs

\* Task t is a live rotary_loop thread that has not left its while loop.
Alive(t) == pc[t] \in BodyPcs \cup {"start", "while", "chk"}

\* Task t executes r.set(0) (main.py:52) in this step.
ResetStep(t) == pc[t] = "rset" /\ pc'[t] = "rflag"

\* Thread th returns from the stop_encoder() of a stop command in this step.
StopReturn(th) == pc[th] = "p88" /\ pc'[th] # "p88"

\* C1: once a stop command has returned (no set accepted since) and no task
\* is inside a poll any more, the actuator is off.
StopLeavesActuatorOff ==
    (stops > 0 /\ \A t \in Tasks : ~Polling(t)) => output = FALSE

\* C2: at most one rotary_loop task is alive at any time.
ExactlyOneTask == Cardinality({t \in Tasks : Alive(t)}) <= 1

\* C3: a task that has just switched the actuator on (main.py:43) sampled a
\* position, in half-steps, at or above the queue entry it read.
TriggerAtTarget ==
    \A t \in Tasks : pc[t] = "settrig" => steps[t] >= target[t]

\* C4: a poll that sampled a position at or above the near-zero threshold
\* while the trigger is latched (triggered set, not yet reset) and the
\* actuator is on leaves the actuator on.
LatchedUntilReset ==
    [][\A t \in Tasks :
          (pc[t] = "off" /\ pc'[t] = "rst" /\ triggered /\ output
              /\ ~NearZero(steps[t])) => output']_vars

\* C5: current_target_index is incremented only after the actuator was
\* switched on for the current index.
AdvanceOnlyAfterTrigger ==
    [][current_target_index' = current_target_index + 1 => fired]_vars

\* C6: a reset (r.set(0)) that follows an earlier reset is preceded by a poll
\* that sampled a position above the clear threshold after that earlier reset.
RearmGuard ==
    [][(\E t \in Tasks : ResetStep(t)) => rearm # "held"]_vars

\* C7: after a sequence completed, and until a set command is accepted, the
\* actuator is off, the sequencer is inactive, and no task resets the
\* position or changes the actuator.
CompletedQuiet ==
    /\ [](completed => (output = FALSE /\ encoder_active = FALSE))
    /\ [][(completed /\ completed') =>
              (output' = output /\ \A t \in Tasks : ~ResetStep(t))]_vars

\* C8: a command line answered with a rejection (invalid set, unknown
\* command) changes nothing of the sequencer: queue, index, flags, actuator,
\* position, and every thread other than the one that leaves its prompt.
RejectedNoChange ==
    [][(reply' # reply /\ reply' = "rejected") =>
          /\ UNCHANGED <<target_angles, current_target_index, encoder_active,
                         reset_detected, triggered, loop_running, output,
                         value, steps, target>>
          /\ \A th \in Threads :
                pc'[th] = pc[th] \/ (pc[th] = "prompt" /\ pc'[th] = Ret(th))]_vars

\* C8 witness: a command was rejected while a sequence is running.
RejectedWhileRunning ==
    /\ reply = "rejected"
    /\ encoder_active
    /\ \E t \in Tasks : Polling(t)

\* C9: no step installs an empty target queue, and the sequencer is
\* activated only on a non-empty queue.
EmptySetRejected ==
    [][/\ target_angles' # target_angles => target_angles' # <<>>
       /\ (encoder_active' /\ ~encoder_active) => target_angles # <<>>]_vars

GridTokens ==
    {[k |-> "num", v |-> d] : d \in 0..MaxTenths} \cup {[k |-> "blank", v |-> 0]}

GridLists == UNION { [1..n -> GridTokens] : n \in 1..MaxToks }

\* The set command alone, on every line of grid angles (main.py:71-81).
NextParse ==
    \/ \E toks \in GridLists : SetAngles(Main, toks)
    \/ SetIndex(Main)
    \/ SetActive(Main)
    \/ SetLoopRunning(Main)
    \/ StartThread(Main)

SpecParse == Init /\ [][NextParse]_vars

\* round(a * 2) for a = tenths/10 >= 0 (2a is never half-way between two
\* integers on this grid).
RoundHalfSteps(tenths) == (2 * tenths + 5) \div 10

\* C11: an accepted set line installs, for each listed angle a, the
\* half-step count round(a * 2), in the order listed.
QueueIsRounded ==
    [][\A toks \in GridLists :
          (SetAngles(Main, toks) /\ pc'[Main] = "s77") =>
              target_angles' = [i \in 1..Len(NonBlank(toks)) |->
                                   RoundHalfSteps(NonBlank(toks)[i].v)]]_vars

\* ------------------------------------------- the decoder and the sequencer
\* Single decoder edges interleaved with the statements of one sequencer
\* task and of the command thread.
NextDecoder ==
    \/ Decode
    \/ rotary_loop(1)
    \/ prompt_for_angles(Main)

SpecDecoder == Init /\ [][NextDecoder]_vars

\* C12: the position stays within [min_val, max_val] in every step, decoder
\* edge or sequencer reset; a forward edge at max_val leaves it at max_val
\* and a backward edge at min_val leaves it at min_val.
BoundedSaturates ==
    [][/\ value' \in MinVal..MaxVal
       /\ (value = MaxVal /\ Delta(ab, ab') = 1) => value' = MaxVal
       /\ (value = MinVal /\ Delta(ab, ab') = 0 - 1) => value' = MinVal]_vars

\* C12 witness: after a sequencer reset, forward edges have taken the
\* position back up to max_val.
SaturatedAfterReset ==
    /\ value = MaxVal
    /\ reset_detected
    /\ current_target_index > 0

\* C13 as stated: an edge changes the position by exactly the table's delta
\* for the transition (zero for both bits changing), at every position.
DeltaExact ==
    [][ab' # ab => value' = value + Delta(ab, ab')]_vars

\* C13: an edge changes the position by the table's delta for the
\* transition, clamped to [min_val, max_val]; a transition with both bits
\* changing leaves the position unchanged.
DeltaClamped ==
    [][ab' # ab =>
          /\ value' = Bound(value + Delta(ab, ab'))
          /\ Phase(ab') = (Phase(ab) + 2) % 4 => value' = value]_vars

\* C13 witness: the position is strictly inside the bounds after edges in
\* both directions have moved it, with the channels off their rest state.
MovedInside ==
    /\ value = MinVal + 2
    /\ ab = <<0, 0>>
    /\ reset_detected
    /\ \E t \in Tasks : pc[t] = "clr"

\* ------------------------------------------------------ reset and restart
\* Task t executes current_target_index += 1 (main.py:58) in this step.
AdvanceStep(t) == pc[t] = "inc" /\ pc'[t] = "cmp"

\* Task t is the only rotary_loop thread alive.
OnlyTask(t) == \A u \in Tasks : Alive(u) => u = t

\* C14: the reset of a task running alone writes position 0 (main.py:52),
\* and when it has advanced the index (main.py:58) the triggered flag is
\* cleared, the actuator is off and the index has grown by exactly one.
ResetLeavesClean ==
    [][\A t \in Tasks :
          /\ ResetStep(t) => value' = 0
          /\ (AdvanceStep(t) /\ OnlyTask(t) /\ ~CmdBusy) =>
                 /\ triggered' = FALSE
                 /\ output' = FALSE
                 /\ current_target_index' = current_target_index + 1]_vars

\* Thread th returns from an accepted set_angles (main.py:81) in this step.
SetReturn(th) == pc[th] = "s81" /\ pc'[th] # "s81"

\* C15: when an accepted set returns and no task of an earlier sequence is
\* inside a poll, the index is 0 and neither the triggered flag nor the
\* near-zero latch is set.
SetStartsFresh ==
    [][\A th \in Threads :
          (SetReturn(th) /\ \A t \in Tasks : ~Polling(t)) =>
              /\ current_target_index' = 0
              /\ triggered' = FALSE
              /\ reset_detected' = FALSE]_vars

\* ------------------------------------------------- position, stop, index
\* C16: a step that changes the position is the r.set(0) of a poll that
\* sampled a position below the near-zero threshold, or changes nothing of
\* the sequencer and of the commands (a decoder edge): set, stop, unknown
\* commands, idle polls and every other statement leave it unchanged.
PositionWriters ==
    [][value' # value =>
          \/ \E t \in Tasks : ResetStep(t) /\ NearZero(steps[t])
          \/ UNCHANGED <<output, target_angles, current_target_index,
                         encoder_active, reset_detected, triggered,
                         loop_running, pc, steps, target, reply>>]_vars

\* C16 witness: a set was accepted and a stop has returned, the task polls
\* idle, and the position is where the decoder left it.
PositionKept ==
    /\ stops > 0
    /\ value = MaxVal
    /\ target_angles # <<>>
    /\ \E t \in Tasks : pc[t] = "chk"

\* Task t passes the idle check of main.py:33 into a poll body in this step.
PollStart(t) == pc[t] = "chk" /\ pc'[t] = "read"

IndexInsideQueue ==
    \A t \in Tasks :
        (pc[t] = "tgt" /\ OnlyTask(t) /\ target_angles # <<>>) =>
            current_target_index < Len(target_angles)

\* ---------------------------------------------------------------- liveness
\* The mechanism cycling: once the level it holds has been sampled by a poll
\* (main.py:37), it moves from below the near-zero threshold to above the
\* clear threshold (and above every queued target), or back.
Cycle ==
    /\ sampled
    /\ sampled' = FALSE
    /\ \E p \in Positions :
          /\ IF NearZero(value) THEN AboveClear(p) ELSE NearZero(p)
          /\ value' = Bound(p)
    /\ UNCHANGED <<watch, ab, output, target_angles, current_target_index,
                   encoder_active, reset_detected, triggered, loop_running, pc,
                   steps, target, reply, stops, fired, rearm, completed>>

\* One set line, handled by the main thread; no stop and no second set.
FirstSet ==
    \/ \E toks \in TokLists : pc[1] = "none" /\ SetAngles(Main, toks)
    \/ SetIndex(Main)
    \/ SetActive(Main)
    \/ SetLoopRunning(Main)
    \/ StartThread(Main)

NextLive ==
    \/ Cycle
    \/ FirstSet
    \/ rotary_loop(1)

\* The task is scheduled fairly (its sleeps end) and the mechanism keeps
\* cycling.
SpecLive ==
    /\ InitW("sampled")
    /\ [][NextLive]_vars
    /\ WF_vars(rotary_loop(1))
    /\ WF_vars(Cycle)

\* The sequence has completed: the loop has ended (main.py:59-64) with the
\* sequencer inactive and the actuator off.
Completed ==
    /\ pc[1] = "prompt"
    /\ ~loop_running
    /\ ~encoder_active
    /\ ~output

\* C19: under fair scheduling and a cycling position, with no stop and no
\* new set, every accepted set (its task started) leads to Completed.
AcceptedCompletes == (pc[1] = "start") ~> Completed

\* The same for a non-empty queue only.
NonEmptyCompletes == (pc[1] = "start" /\ target_angles # <<>>) ~> Completed

====
